---- MODULE Spec2Model ----
(***************************************************************************)
(* GlobalBridgeScheduler (core/bridge_scheduler/global_bridge.py):         *)
(* StateFlagManager, InstantTriggerCoordinator and the execute_dag loop,   *)
(* modelled as a state machine.                                            *)
(*                                                                         *)
(* execute_dag is a coroutine: everything between two awaits runs on the   *)
(* event-loop thread without interleaving, so each action below is one     *)
(* such stretch.  The executor itself runs in the default thread pool      *)
(* (run_in_executor); only its outcome is visible to the scheduler.        *)
(***************************************************************************)
EXTENDS Integers, Sequences, FiniteSets, TLC

\* ---------------------------------------------------------------- bounds
\* node ids, in the order the node lists are written
NodeOrder == <<"A", "B", "C", "D">>
NodeIds == {NodeOrder[i] : i \in 1..Len(NodeOrder)}
\* ids used when the graph is built by arbitrary calls (specification Spec)
BuildIds == {"A", "B"}
\* number of {node_id: [upstream ids]} entries applied by set_node_dependencies
MaxDepEntries == 3

\* ------------------------------------------------------- values of fields
None == "None"
\* Python's bool values, as update_state returns them
True == "True"
False == "False"
IDLE == "idle"
READY == "ready"
EXECUTING == "executing"
COMPLETED == "completed"
FAILED == "failed"
BLOCKED == "blocked"
NodeState == {IDLE, READY, EXECUTING, COMPLETED, FAILED, BLOCKED}

\* None where the other values are dicts or objects, "" where they are texts
Null == <<>>
NoPrompt == <<>>

\* datetime.now().isoformat(): only set / unset is observed
Stamp == "isoformat"

\* what the executor may hand back for a node (Callable[[ExecutionNode], Any]):
\*   "truthy"  a JSON-serialisable value that is true in a boolean context
\*   "falsy"   a value other than None that is false in a boolean context (0, "", [])
\*   "opaque"  a true value json.dumps cannot serialise (set, bytes, object)
\*   None      the executor returns None
\*   "raise"   the executor raises an Exception
ExecutorReturns == {"truthy", "falsy", "opaque", None}
ExecutorOutcomes == ExecutorReturns \cup {"raise"}
ErrorText == "str(e)"
\* (datetime.now() - start_time).total_seconds()
Elapsed == "total_seconds"

VARIABLES
    phase,              \* position of the calling program: "build", "run", "done"
    nodes,              \* StateFlagManager.nodes: node id -> ExecutionNode
    state_listeners,    \* StateFlagManager.state_listeners: node id -> list of callbacks
    prompt_generator,   \* InstantTriggerCoordinator.prompt_generator
    dep_entries,        \* number of dependency entries applied so far (bounded by MaxDepEntries)
    iteration,          \* iterations of the scheduling loop consumed
    max_iterations,     \* len(dag_nodes) * 2
    tasks,              \* node ids whose _execute_node coroutine is awaited by gather
    stored,             \* those of them that have stored result or error and not yet
                        \* called update_state (seen only by another thread)
    sleeps,             \* number of asyncio.sleep(0.1) calls made by the loop
    results,            \* value returned by execute_dag (None until it returns)
    ready_log,          \* node id -> number of logged transitions into READY
    prompt_log,         \* node id -> number of generate_prompt calls for the node
    dispatch_log,       \* node id -> number of times handed to the executor
    audit_log,          \* GlobalBridgeScheduler.audit_log
    bridge_calls,       \* number of bridge_context calls made
    last_request,       \* the BridgeRequest of the latest bridge_context call
    last_response,      \* the BridgeResponse it returned
    last_policy,        \* the dict _check_bridge_policy returned in that call (Null: not reached)
    audit_view,         \* the list returned by the latest get_audit_log call
    invoked,            \* callbacks run by the latest update_state call made from outside
    returned,           \* the value that call returned
    update_calls,       \* number of update_state calls made from outside
    last_update,        \* <<node_id, new_state>> of the latest of them
    task_nodes,         \* TaskDAG.nodes: task id -> TaskNode (title, dependencies, state)
    reported,           \* ids of the list returned by the latest get_ready_tasks call
    updated,            \* task id passed to the latest update_task_state call
    clock,              \* the reading of datetime.now()
    layers,             \* HierarchicalContextManager.layers: level -> record id -> ContextRecord
    node_contexts,      \* HierarchicalContextManager.node_contexts: node id -> record ids
    context_calls,      \* number of create_context calls
    node_view,          \* the latest get_node_context call: its node_id and the records returned
    merge_tokens,       \* IdempotentMerger.merge_tokens
    rollback_points,    \* RollbackManager.rollback_points
    objects,            \* the caller's mutable objects: object -> value
    merger_calls,       \* number of calls that merge or create a rollback point
    created,            \* every create_rollback_point call: the id returned and the state passed
    merge_out,          \* the latest merge or merge_results call and what it returned
    rolled              \* the latest rollback_to call: its point_id and what it returned

bridge_vars == <<audit_log, bridge_calls, last_request, last_response, last_policy,
                 audit_view>>

api_vars == <<invoked, returned, update_calls, last_update>>

task_vars == <<task_nodes, reported, updated>>
ctx_vars == <<clock, layers, node_contexts, context_calls, node_view>>
merger_vars == <<merge_tokens, rollback_points, objects, merger_calls, created, merge_out,
                 rolled>>

vars == <<phase, nodes, state_listeners, prompt_generator, dep_entries, iteration,
          max_iterations, tasks, stored, sleeps, results, ready_log, prompt_log, dispatch_log,
          audit_log, bridge_calls, last_request, last_response, last_policy,
          audit_view, invoked, returned, update_calls, last_update, task_nodes,
          reported, updated, clock, layers, node_contexts, context_calls, node_view,
          merge_tokens, rollback_points, objects, merger_calls, created, merge_out,
          rolled>>

\* ------------------------------------------------------------ ExecutionNode
\* A node as its constructor leaves it.  upstream_nodes is kept as a set: the
\* code only tests its emptiness, iterates it under all() and collects one
\* entry per element.  downstream_nodes keeps its order, which decides the
\* order in which dependents are evaluated.
ExecutionNode(id) ==
    [ id               |-> id,
      role             |-> "role",
      task_id          |-> "task_id",
      state            |-> IDLE,
      upstream_nodes   |-> {},
      downstream_nodes |-> <<>>,
      prompt           |-> NoPrompt,
      context_data     |-> {},
      result           |-> None,
      error            |-> None,
      execution_time   |-> "0.0",
      created_at       |-> Stamp,
      started_at       |-> None,
      completed_at     |-> None ]

SeqToSet(s) == {s[i] : i \in 1..Len(s)}

\* the store threaded through update_state and the listeners it calls
Store == [nodes |-> nodes, state_listeners |-> state_listeners,
          prompt_generator |-> prompt_generator,
          ready_log |-> ready_log, prompt_log |-> prompt_log,
          invoked |-> <<>>, returned |-> None]

\* ---------------------------------------------------------- generate_prompt
\* bool(result): the upstream result is included only when it is true
Truthy(r) == r \in {"truthy", "opaque"}

upstream_results(ns, node_id) ==
    {<<up_id, ns[up_id].result>> :
        up_id \in {u \in ns[node_id].upstream_nodes : u \in DOMAIN ns /\ Truthy(ns[u].result)}}

\* json.dumps(upstream_results) raises TypeError on a value it cannot serialise
generate_prompt_raises(ns, node_id) ==
    \E e \in upstream_results(ns, node_id) : e[2] = "opaque"

\* the prompt text: role and task id are fixed, the upstream results vary
generate_prompt(ns, node_id) == <<upstream_results(ns, node_id)>>

\* ------------------------------------------------------------- update_state
RECURSIVE update_state(_, _, _)
RECURSIVE _notify_listeners(_, _, _, _)
RECURSIVE _trigger_downstream_nodes(_, _)

\* a promotion check that takes a failed upstream node for a finished one
all_deps_finished(ns, downstream_id) ==
    \A up_id \in ns[downstream_id].upstream_nodes :
        up_id \in DOMAIN ns /\ ns[up_id].state \in {COMPLETED, FAILED}

\* lines 201-204: every upstream node is COMPLETED
all_deps_completed(ns, downstream_id) ==
    \A up_id \in ns[downstream_id].upstream_nodes :
        up_id \in DOMAIN ns /\ ns[up_id].state = COMPLETED

\* the loop of _trigger_downstream_nodes over the remaining downstream ids;
\* an exception of the prompt generator leaves the loop (and the callback)
_trigger_downstream_nodes(st, ds) ==
    IF ds = <<>> THEN st
    ELSE LET downstream_id == Head(ds) IN
         IF downstream_id \notin DOMAIN st.nodes
         THEN _trigger_downstream_nodes(st, Tail(ds))
         ELSE IF all_deps_completed(st.nodes, downstream_id)
         THEN IF st.prompt_generator # None
              THEN LET called == [st EXCEPT !.prompt_log[downstream_id] = @ + 1] IN
                   IF generate_prompt_raises(st.nodes, downstream_id)
                   THEN called
                   ELSE _trigger_downstream_nodes(
                            update_state(
                                [called EXCEPT !.nodes[downstream_id].prompt =
                                    generate_prompt(st.nodes, downstream_id)],
                                downstream_id, READY),
                            Tail(ds))
              ELSE _trigger_downstream_nodes(update_state(st, downstream_id, READY), Tail(ds))
         ELSE _trigger_downstream_nodes(st, Tail(ds))

_on_state_change(st, node_id, new_state) ==
    IF new_state = COMPLETED
    THEN IF node_id \in DOMAIN st.nodes
         THEN _trigger_downstream_nodes(st, st.nodes[node_id].downstream_nodes)
         ELSE st
    ELSE st

\* what a callback does when it is called: the coordinator's _on_state_change,
\* or a subscriber's own callback that returns ("records") or raises ("raises")
callback_runs(st, callback, node_id, new_state) ==
    IF callback = "_on_state_change" THEN _on_state_change(st, node_id, new_state)
    ELSE st

\* the loop over the listeners without the try/except around each call: the
\* first callback that raises ends the loop
RECURSIVE notify_listeners_uncontained(_, _, _, _)
notify_listeners_uncontained(st, node_id, new_state, listeners) ==
    IF listeners = <<>> THEN st
    ELSE LET callback == Head(listeners)
             called == [st EXCEPT !.invoked = Append(@, <<callback, node_id, new_state>>)]
         IN IF callback = "raises" THEN called
            ELSE notify_listeners_uncontained(
                    callback_runs(called, callback, node_id, new_state),
                    node_id, new_state, Tail(listeners))

\* every callback runs inside its own try/except, in the order of the list
_notify_listeners(st, node_id, new_state, listeners) ==
    IF listeners = <<>> THEN st
    ELSE LET callback == Head(listeners)
             called == [st EXCEPT !.invoked = Append(@, <<callback, node_id, new_state>>)]
         IN _notify_listeners(callback_runs(called, callback, node_id, new_state),
                              node_id, new_state, Tail(listeners))

\* update_state without the test of lines 114-115
update_state_unchecked(st, node_id, new_state) ==
    LET stamped ==
            IF node_id \in DOMAIN st.nodes
            THEN [st EXCEPT
                    !.nodes[node_id].state = new_state,
                    !.nodes[node_id].started_at =
                        IF new_state = EXECUTING THEN Stamp ELSE @,
                    !.nodes[node_id].completed_at =
                        IF new_state \in {COMPLETED, FAILED} THEN Stamp ELSE @,
                    !.ready_log[node_id] = IF new_state = READY THEN @ + 1 ELSE @]
            ELSE st
    IN [_notify_listeners(stamped, node_id, new_state,
            IF node_id \in DOMAIN st.state_listeners
            THEN st.state_listeners[node_id] ELSE <<>>)
        EXCEPT !.returned = True]

update_state(st, node_id, new_state) ==
    IF node_id \notin DOMAIN st.nodes THEN [st EXCEPT !.returned = False]
    ELSE LET stamped ==
                [st EXCEPT
                    !.nodes[node_id].state = new_state,
                    !.nodes[node_id].started_at =
                        IF new_state = EXECUTING THEN Stamp ELSE @,
                    !.nodes[node_id].completed_at =
                        IF new_state \in {COMPLETED, FAILED} THEN Stamp ELSE @,
                    !.ready_log[node_id] = IF new_state = READY THEN @ + 1 ELSE @]
         IN [_notify_listeners(stamped, node_id, new_state,
                IF node_id \in DOMAIN st.state_listeners
                THEN st.state_listeners[node_id] ELSE <<>>)
             EXCEPT !.returned = True]

\* update_state applied to each node of a list in turn
RECURSIVE update_states(_, _, _)
update_states(st, ids, new_state) ==
    IF ids = <<>> THEN st
    ELSE update_states(update_state(st, Head(ids), new_state), Tail(ids), new_state)

\* --------------------------------------- StateFlagManager called from outside
\* number of update_state calls, and of listeners in all the lists together
MaxUpdateCalls == 2
MaxListeners == 4
\* ids and callbacks a caller may pass; "X" is never registered
CallIds == {"A", "B", "X"}
Callbacks == {"raises", "records"}

\* add_listener(node_id, callback)
add_listener_to(listeners, node_id, callback) ==
    [id \in (DOMAIN listeners) \cup {node_id} |->
        IF id = node_id
        THEN (IF id \in DOMAIN listeners THEN listeners[id] ELSE <<>>) \o <<callback>>
        ELSE listeners[id]]

ListenerCount ==
    Cardinality(UNION {{<<id, i>> : i \in 1..Len(state_listeners[id])} :
                            id \in DOMAIN state_listeners})

add_listener_call(node_id, callback) ==
    /\ ListenerCount < MaxListeners
    /\ state_listeners' = add_listener_to(state_listeners, node_id, callback)
    /\ UNCHANGED bridge_vars
    /\ UNCHANGED <<api_vars, task_vars, ctx_vars, merger_vars>>
    /\ UNCHANGED <<phase, nodes, prompt_generator, dep_entries, iteration, max_iterations,
                   tasks, stored, sleeps, results, ready_log, prompt_log, dispatch_log>>

\* state_manager.update_state(node_id, new_state), called by a user of the manager
update_state_call(node_id, new_state) ==
    /\ update_calls < MaxUpdateCalls
    /\ LET st == update_state(Store, node_id, new_state) IN
        /\ nodes' = st.nodes
        /\ ready_log' = st.ready_log
        /\ prompt_log' = st.prompt_log
        /\ invoked' = st.invoked
        /\ returned' = st.returned
    /\ update_calls' = update_calls + 1
    /\ last_update' = <<node_id, new_state>>
    /\ UNCHANGED bridge_vars
    /\ UNCHANGED <<task_vars, ctx_vars, merger_vars>>
    /\ UNCHANGED <<phase, state_listeners, prompt_generator, dep_entries, iteration,
                   max_iterations, tasks, stored, sleeps, results, dispatch_log>>

\* ----------------------------------------------------------- register_nodes
\* the ids of a node list, in NodeOrder
IdList(S) == SelectSeq(NodeOrder, LAMBDA id : id \in S)

add_listener(listeners, S) ==
    [id \in (DOMAIN listeners) \cup S |->
        IF id \in S
        THEN (IF id \in DOMAIN listeners THEN listeners[id] ELSE <<>>)
             \o <<"_on_state_change">>
        ELSE listeners[id]]

\* register_nodes with a list of freshly constructed nodes, ids S
register_nodes(S) ==
    /\ phase = "build"
    /\ DOMAIN nodes = {}
    /\ nodes' = [id \in S |-> ExecutionNode(id)]
    /\ state_listeners' = add_listener(state_listeners, S)
    /\ ready_log' = [id \in S |-> 0]
    /\ prompt_log' = [id \in S |-> 0]
    /\ dispatch_log' = [id \in S |-> 0]
    /\ UNCHANGED bridge_vars
    /\ UNCHANGED <<api_vars, task_vars, ctx_vars, merger_vars>>
    /\ UNCHANGED <<phase, prompt_generator, dep_entries, iteration, max_iterations,
                   tasks, stored, sleeps, results>>

\* ---------------------------------------------------- set_node_dependencies
\* the loop over upstream_ids appending without the "not in" test
RECURSIVE append_downstream_always(_, _, _)
append_downstream_always(ns, node_id, ups) ==
    IF ups = <<>> THEN ns
    ELSE LET up_id == Head(ups) IN
         append_downstream_always(
            IF up_id \in DOMAIN ns
            THEN [ns EXCEPT ![up_id].downstream_nodes = Append(@, node_id)]
            ELSE ns,
            node_id, Tail(ups))

RECURSIVE append_downstream(_, _, _)
append_downstream(ns, node_id, ups) ==
    IF ups = <<>> THEN ns
    ELSE LET up_id == Head(ups) IN
         append_downstream(
            IF up_id \in DOMAIN ns /\ node_id \notin SeqToSet(ns[up_id].downstream_nodes)
            THEN [ns EXCEPT ![up_id].downstream_nodes = Append(@, node_id)]
            ELSE ns,
            node_id, Tail(ups))

set_dependency(ns, node_id, upstream_ids) ==
    IF node_id \in DOMAIN ns
    THEN append_downstream([ns EXCEPT ![node_id].upstream_nodes = upstream_ids],
                           node_id, IdList(upstream_ids))
    ELSE ns

\* the whole loop over dependencies.items(), entries being the dict's
\* <<node_id, upstream_ids>> pairs in its order
RECURSIVE set_dependencies(_, _)
set_dependencies(ns, entries) ==
    IF entries = <<>> THEN ns
    ELSE set_dependencies(set_dependency(ns, Head(entries)[1], Head(entries)[2]),
                          Tail(entries))

\* one {node_id: upstream_ids} entry of the dependencies dict; a dict with
\* several entries is the same loop body run once per entry
set_node_dependencies(node_id, upstream_ids) ==
    /\ phase = "build"
    /\ DOMAIN nodes # {}
    /\ dep_entries < MaxDepEntries
    /\ nodes' = set_dependency(nodes, node_id, upstream_ids)
    /\ dep_entries' = dep_entries + 1
    /\ UNCHANGED bridge_vars
    /\ UNCHANGED <<api_vars, task_vars, ctx_vars, merger_vars>>
    /\ UNCHANGED <<phase, state_listeners, prompt_generator, iteration, max_iterations,
                   tasks, stored, sleeps, results, ready_log, prompt_log, dispatch_log>>

\* -------------------------------------------------------------- execute_dag
\* lines 403-416: register the nodes again, install the prompt generator,
\* seed the roots, compute the iteration cap
execute_dag_start ==
    /\ phase = "build"
    /\ DOMAIN nodes # {}
    /\ LET dag_nodes == DOMAIN nodes
           roots == SelectSeq(IdList(dag_nodes), LAMBDA id : nodes[id].upstream_nodes = {})
           listeners2 == add_listener(state_listeners, dag_nodes)
           seeded == update_states(
                        [Store EXCEPT !.state_listeners = listeners2,
                                      !.prompt_generator = "generate_prompt"],
                        roots, READY)
       IN
        /\ state_listeners' = seeded.state_listeners
        /\ prompt_generator' = seeded.prompt_generator
        /\ nodes' = seeded.nodes
        /\ ready_log' = seeded.ready_log
        /\ prompt_log' = seeded.prompt_log
        /\ max_iterations' = Cardinality(dag_nodes) * 2
    /\ phase' = "run"
    /\ iteration' = 0
    /\ UNCHANGED bridge_vars
    /\ UNCHANGED <<api_vars, task_vars, ctx_vars, merger_vars>>
    /\ UNCHANGED <<dep_entries, tasks, stored, sleeps, results, dispatch_log>>

ready_nodes == {id \in DOMAIN nodes : nodes[id].state = READY}

all_done == \A id \in DOMAIN nodes : nodes[id].state \in {COMPLETED, FAILED}

\* a loop `while True` in place of `for _ in range(max_iterations)`
InLoop_uncapped == phase = "run" /\ tasks = {}

InLoop == phase = "run" /\ tasks = {} /\ iteration < max_iterations

status_map == [id \in DOMAIN nodes |->
                [state |-> nodes[id].state, result |-> nodes[id].result,
                 error |-> nodes[id].error]]

\* lines 436-442: every READY node goes to EXECUTING and is handed to the executor
loop_dispatch ==
    /\ InLoop
    /\ ready_nodes # {}
    /\ LET st == update_states(Store, IdList(ready_nodes), EXECUTING) IN
        /\ nodes' = st.nodes
        /\ ready_log' = st.ready_log
        /\ prompt_log' = st.prompt_log
    /\ tasks' = ready_nodes
    /\ dispatch_log' = [id \in DOMAIN dispatch_log |->
                          IF id \in ready_nodes THEN dispatch_log[id] + 1
                          ELSE dispatch_log[id]]
    /\ iteration' = iteration + 1
    /\ UNCHANGED bridge_vars
    /\ UNCHANGED <<api_vars, task_vars, ctx_vars, merger_vars>>
    /\ UNCHANGED <<phase, state_listeners, prompt_generator, dep_entries,
                   max_iterations, stored, sleeps, results>>

\* lines 425-434, not all done: sleep and go round again
loop_sleep ==
    /\ InLoop
    /\ ready_nodes = {}
    /\ ~all_done
    /\ sleeps' = sleeps + 1
    /\ iteration' = iteration + 1
    /\ UNCHANGED bridge_vars
    /\ UNCHANGED <<api_vars, task_vars, ctx_vars, merger_vars>>
    /\ UNCHANGED <<phase, nodes, state_listeners, prompt_generator, dep_entries,
                   max_iterations, tasks, stored, results, ready_log, prompt_log, dispatch_log>>

\* lines 425-432 and 444-453: all done, break and return the status map
loop_break ==
    /\ InLoop
    /\ ready_nodes = {}
    /\ all_done
    /\ phase' = "done"
    /\ results' = status_map
    /\ UNCHANGED bridge_vars
    /\ UNCHANGED <<api_vars, task_vars, ctx_vars, merger_vars>>
    /\ UNCHANGED <<nodes, state_listeners, prompt_generator, dep_entries, iteration,
                   max_iterations, tasks, stored, sleeps, ready_log, prompt_log, dispatch_log>>

\* range(max_iterations) is used up: the loop ends and the status map is returned
loop_exhausted ==
    /\ phase = "run"
    /\ tasks = {}
    /\ iteration = max_iterations
    /\ phase' = "done"
    /\ results' = status_map
    /\ UNCHANGED bridge_vars
    /\ UNCHANGED <<api_vars, task_vars, ctx_vars, merger_vars>>
    /\ UNCHANGED <<nodes, state_listeners, prompt_generator, dep_entries, iteration,
                   max_iterations, tasks, stored, sleeps, ready_log, prompt_log, dispatch_log>>

\* ------------------------------------------------------------ _execute_node
\* lines 465 and 470: COMPLETED after the try body, FAILED in the except clause
outcome_state(outcome) == IF outcome = "raise" THEN FAILED ELSE COMPLETED

\* the part of _execute_node after the await: the executor has returned or raised
_execute_node(node_id, outcome) ==
    /\ phase = "run"
    /\ node_id \in tasks
    /\ LET written == IF outcome = "raise"
                      THEN [nodes EXCEPT ![node_id].error = ErrorText,
                                         ![node_id].execution_time = Elapsed]
                      ELSE [nodes EXCEPT ![node_id].result = outcome,
                                         ![node_id].execution_time = Elapsed]
           st == update_state([Store EXCEPT !.nodes = written], node_id,
                              outcome_state(outcome))
       IN
        /\ nodes' = st.nodes
        /\ ready_log' = st.ready_log
        /\ prompt_log' = st.prompt_log
    /\ tasks' = tasks \ {node_id}
    /\ UNCHANGED bridge_vars
    /\ UNCHANGED <<api_vars, task_vars, ctx_vars, merger_vars>>
    /\ UNCHANGED <<phase, state_listeners, prompt_generator, dep_entries, iteration,
                   max_iterations, stored, sleeps, results, dispatch_log>>

\* _execute_node as a thread other than the event loop's sees it, in two steps.
\* Lines 463-464 / 468-469: the outcome is stored in the node, no lock held
_execute_node_store(node_id, outcome) ==
    /\ phase = "run"
    /\ node_id \in tasks \ stored
    /\ nodes' = IF outcome = "raise"
                THEN [nodes EXCEPT ![node_id].error = ErrorText,
                                   ![node_id].execution_time = Elapsed]
                ELSE [nodes EXCEPT ![node_id].result = outcome,
                                   ![node_id].execution_time = Elapsed]
    /\ stored' = stored \cup {node_id}
    /\ UNCHANGED bridge_vars
    /\ UNCHANGED <<api_vars, task_vars, ctx_vars, merger_vars>>
    /\ UNCHANGED <<phase, state_listeners, prompt_generator, dep_entries, iteration,
                   max_iterations, tasks, sleeps, results, ready_log, prompt_log,
                   dispatch_log>>

\* lines 465 / 470: update_state(COMPLETED) or update_state(FAILED)
_execute_node_update_state(node_id) ==
    /\ phase = "run"
    /\ node_id \in stored
    /\ LET st == update_state(Store, node_id,
                              IF nodes[node_id].error # None THEN FAILED ELSE COMPLETED)
       IN
        /\ nodes' = st.nodes
        /\ ready_log' = st.ready_log
        /\ prompt_log' = st.prompt_log
    /\ tasks' = tasks \ {node_id}
    /\ stored' = stored \ {node_id}
    /\ UNCHANGED bridge_vars
    /\ UNCHANGED <<api_vars, task_vars, ctx_vars, merger_vars>>
    /\ UNCHANGED <<phase, state_listeners, prompt_generator, dep_entries, iteration,
                   max_iterations, sleeps, results, dispatch_log>>

\* ----------------------------------------------------------- bridge_context
\* number of bridge_context calls
MaxBridgeCalls == 2
\* _validate_consent_token: len(request.consent_token) < 8
MinTokenLength == 8

\* a consent token of n characters
Token(n) == [i \in 1..n |-> "x"]
ConsentTokens == {Token(0), Token(5), Token(8)}
\* scope strings a caller may pass; "PUBLIC" is none of the three the code names
Scopes == {"public", "shared", "private", "PUBLIC"}
\* ids a request may name as source and as target; "X" is never registered
SourceIds == {"A", "X"}
TargetIds == {"B", "X"}
\* scopes and tokens used with an overridden policy
PolicyScopes == {"shared", "private"}
PolicyTokens == {Token(5), Token(8)}

BridgeRequest(source_node, target_node, scope, consent_token) ==
    [ request_id    |-> "request_id",
      source_node   |-> source_node,
      target_node   |-> target_node,
      query         |-> "query",
      intent        |-> "intent",
      scope         |-> scope,
      consent_token |-> consent_token,
      timestamp     |-> Stamp ]

BridgeResponse(request_id, success, data, source_namespaces, processing_time) ==
    [ request_id        |-> request_id,
      success           |-> success,
      data              |-> data,
      source_namespaces |-> source_namespaces,
      processing_time   |-> processing_time,
      timestamp         |-> Stamp ]

\* the fields of the ExecutionNode dataclass, as asdict lists them
NodeFields == {"id", "role", "task_id", "state", "upstream_nodes", "downstream_nodes",
               "prompt", "context_data", "result", "error", "execution_time",
               "created_at", "started_at", "completed_at"}

to_dict(node) == [f \in NodeFields |-> node[f]]

\* _filter_by_scope without the pop of the prompt for the shared scope
filter_by_scope_keeps_prompt(node, scope) ==
    IF scope \in {"public", "shared"} THEN to_dict(node)
    ELSE [f \in {"id", "state"} |-> node[f]]

\* _filter_by_scope with the full record as the last branch, the private view
\* only for the scope named "private"
filter_by_scope_fails_open(node, scope) ==
    IF scope = "private" THEN [f \in {"id", "state"} |-> node[f]]
    ELSE IF scope = "shared"
    THEN [f \in NodeFields \ {"prompt"} |-> to_dict(node)[f]]
    ELSE to_dict(node)

_filter_by_scope(node, scope) ==
    IF scope = "public" THEN to_dict(node)
    ELSE IF scope = "shared"
    THEN [f \in NodeFields \ {"prompt"} |-> to_dict(node)[f]]
    ELSE [f \in {"id", "state"} |-> node[f]]

_validate_consent_token(request) ==
    ~(request.consent_token = <<>> \/ Len(request.consent_token) < MinTokenLength)

\* the default policy: bridging is allowed
_check_bridge_policy(request) == [allowed |-> TRUE, reason |-> ""]

\* dict.get(key, default)
get(d, key, default) == IF key \in DOMAIN d THEN d[key] ELSE default

\* dicts an overriding _check_bridge_policy may return: the default one, a
\* denial with a reason, a denial without the "reason" key, and a dict
\* without the "allowed" key
Policies == {[allowed |-> TRUE, reason |-> ""],
             [allowed |-> FALSE, reason |-> "forbidden"],
             [allowed |-> FALSE],
             [reason |-> "no decision"]}

\* the audit entry written without the reason it was given
audit_entry_drops_reason(request, response, decision, reason) ==
    [ timestamp       |-> Stamp,
      request_id      |-> request.request_id,
      source          |-> request.source_node,
      target          |-> request.target_node,
      intent          |-> request.intent,
      scope           |-> request.scope,
      decision        |-> decision,
      reason          |-> "",
      processing_time |-> IF response # Null THEN response.processing_time ELSE "0" ]

audit_entry(request, response, decision, reason) ==
    [ timestamp       |-> Stamp,
      request_id      |-> request.request_id,
      source          |-> request.source_node,
      target          |-> request.target_node,
      intent          |-> request.intent,
      scope           |-> request.scope,
      decision        |-> decision,
      reason          |-> reason,
      processing_time |-> IF response # Null THEN response.processing_time ELSE "0" ]

\* _log_audit putting the entry in front of the list instead of appending it
log_audit_in_front(log, request, response, decision, reason) ==
    <<audit_entry(request, response, decision, reason)>> \o log

_log_audit(log, request, response, decision, reason) ==
    Append(log, audit_entry(request, response, decision, reason))

\* _filter_by_scope popping 'prompt' from the node itself instead of the copy
filter_pops_prompt_of_node(node, scope) ==
    IF scope = "shared" THEN [node EXCEPT !.prompt = NoPrompt] ELSE node

\* the node after _filter_by_scope(node, scope) has returned: to_dict works on
\* the dict asdict builds (lists and dicts copied), so the replaced 'state' and
\* the popped 'prompt' are those of the copy
node_after_filter(node, scope) == node

\* the response, the audit log and the nodes after bridge_context(request),
\* _check_bridge_policy returning the dict policy
bridge_under(request, policy) ==
    IF ~_validate_consent_token(request)
    THEN [response |-> BridgeResponse(request.request_id, FALSE, Null, <<>>, "0"),
          audit_log |-> audit_log, nodes |-> nodes, policy |-> Null]
    ELSE IF ~get(policy, "allowed", FALSE)
         THEN [response |-> BridgeResponse(request.request_id, FALSE,
                                [error |-> get(policy, "reason", "Policy denied")],
                                <<>>, "0"),
               audit_log |-> _log_audit(audit_log, request, Null, "DENIED",
                                        get(policy, "reason", "")),
               nodes |-> nodes, policy |-> policy]
         ELSE IF request.source_node \notin DOMAIN nodes
                 \/ request.target_node \notin DOMAIN nodes
         THEN [response |-> BridgeResponse(request.request_id, FALSE,
                                [error |-> "Node not found"], <<>>, "0"),
               audit_log |-> audit_log, nodes |-> nodes, policy |-> policy]
         ELSE LET response == BridgeResponse(request.request_id, TRUE,
                                _filter_by_scope(nodes[request.target_node], request.scope),
                                <<request.target_node>>, Elapsed)
              IN [response |-> response,
                  audit_log |-> _log_audit(audit_log, request, response, "ALLOWED", ""),
                  nodes |-> [nodes EXCEPT ![request.target_node] =
                                node_after_filter(@, request.scope)],
                  policy |-> policy]

\* bridge_context as the class defines it, with the default policy
bridge(request) == bridge_under(request, _check_bridge_policy(request))

\* the call with its outcome r
bridge_call(request, r) ==
    /\ last_response' = r.response
    /\ audit_log' = r.audit_log
    /\ nodes' = r.nodes
    /\ last_policy' = r.policy
    /\ last_request' = request
    /\ bridge_calls' = bridge_calls + 1
    /\ UNCHANGED <<phase, state_listeners, prompt_generator, dep_entries,
                   iteration, max_iterations, tasks, stored, sleeps, results, ready_log,
                   prompt_log, dispatch_log, audit_view>>
    /\ UNCHANGED <<api_vars, task_vars, ctx_vars, merger_vars>>

bridge_context(request) == bridge_call(request, bridge(request))

\* bridge_context of a subclass whose _check_bridge_policy returns policy
bridge_context_policy(request, policy) == bridge_call(request, bridge_under(request, policy))

\* get_audit_log: a copy of the list
get_audit_log ==
    /\ audit_view' = audit_log
    /\ UNCHANGED <<phase, nodes, state_listeners, prompt_generator, dep_entries,
                   iteration, max_iterations, tasks, stored, sleeps, results, ready_log,
                   prompt_log, dispatch_log, audit_log, bridge_calls, last_request,
                   last_response, last_policy>>
    /\ UNCHANGED <<api_vars, task_vars, ctx_vars, merger_vars>>

\* ------------------------------------------------------------------ TaskDAG
\* task_decomposer.TaskState
PENDING == "pending"
RUNNING == "running"
TaskState == {PENDING, READY, RUNNING, COMPLETED, FAILED, BLOCKED}

\* Titles are strings, kept as sequences of characters: "a", "ab", "c"
Titles == {<<"a">>, <<"a", "b">>, <<"c">>}
TaskIds == <<"t1", "t2", "t3">>
\* ids a caller may pass to update_task_state; "tx" is no task of the DAG
TaskCallIds == {"t1", "t2", "t3", "tx"}

\* Python's `s in t` on strings
IsSubstring(s, t) ==
    \E k \in 0..(Len(t) - Len(s)) : SubSeq(t, k + 1, k + Len(s)) = s

TaskNode(id, title, dependencies) ==
    [id |-> id, title |-> title, dependencies |-> dependencies, state |-> PENDING]

\* position in TaskDAG.nodes (a dict, in insertion order) of the task with the id, 0 if none
TaskIndex(ns, id) ==
    IF \E i \in 1..Len(ns) : ns[i].id = id
    THEN CHOOSE i \in 1..Len(ns) : ns[i].id = id
    ELSE 0

\* _find_node_by_title: the first node of the dict whose title contains the
\* string; 0 stands for None
_find_node_by_title(ns, title) ==
    IF \E i \in 1..Len(ns) : IsSubstring(title, ns[i].title)
    THEN CHOOSE i \in 1..Len(ns) :
            /\ IsSubstring(title, ns[i].title)
            /\ \A j \in 1..(i - 1) : ~IsSubstring(title, ns[j].title)
    ELSE 0

\* get_ready_tasks, lines 107-111: dependencies that resolve to no node are skipped
deps_completed(ns, node) ==
    \A dep \in node.dependencies :
        _find_node_by_title(ns, dep) # 0
            => ns[_find_node_by_title(ns, dep)].state = COMPLETED

\* _trigger_downstream_ready_check, lines 141-145
all_deps_done(ns, node) ==
    \A dep \in node.dependencies :
        /\ _find_node_by_title(ns, dep) # 0
        /\ ns[_find_node_by_title(ns, dep)].state = COMPLETED

\* _trigger_downstream_ready_check: the loop over self.nodes.values() from
\* position i on
RECURSIVE _trigger_downstream_ready_check(_, _, _)
_trigger_downstream_ready_check(ns, completed, i) ==
    IF i > Len(ns) THEN ns
    ELSE IF /\ ns[i].state = PENDING
            /\ \E dep \in ns[i].dependencies : IsSubstring(ns[completed].title, dep)
            /\ all_deps_done(ns, ns[i])
         THEN _trigger_downstream_ready_check([ns EXCEPT ![i].state = READY],
                                              completed, i + 1)
         ELSE _trigger_downstream_ready_check(ns, completed, i + 1)

update_task_state(task_id, new_state) ==
    /\ task_nodes # <<>>
    /\ LET i == TaskIndex(task_nodes, task_id)
           set == [task_nodes EXCEPT ![i].state = new_state]
       IN task_nodes' =
            IF i = 0 THEN task_nodes
            ELSE IF new_state = COMPLETED
                 THEN _trigger_downstream_ready_check(set, i, 1)
                 ELSE set
    /\ updated' = task_id
    /\ UNCHANGED reported
    /\ UNCHANGED <<bridge_vars, api_vars, ctx_vars, merger_vars>>
    /\ UNCHANGED <<phase, nodes, state_listeners, prompt_generator, dep_entries,
                   iteration, max_iterations, tasks, stored, sleeps, results,
                   ready_log, prompt_log, dispatch_log>>

get_ready_tasks ==
    /\ task_nodes # <<>>
    /\ reported' = {task_nodes[i].id : i \in
                        {k \in 1..Len(task_nodes) :
                            /\ task_nodes[k].state = PENDING
                            /\ deps_completed(task_nodes, task_nodes[k])}}
    /\ UNCHANGED <<task_nodes, updated>>
    /\ UNCHANGED <<bridge_vars, api_vars, ctx_vars, merger_vars>>
    /\ UNCHANGED <<phase, nodes, state_listeners, prompt_generator, dep_entries,
                   iteration, max_iterations, tasks, stored, sleeps, results,
                   ready_log, prompt_log, dispatch_log>>

\* ------------------------------------------- HierarchicalContextManager
\* number of create_context calls
MaxContextCalls == 2
\* the last reading of the clock, in seconds
MaxClock == 1

\* ContextLevel, in the order of the enum (the order of self.layers)
ContextLevels == <<"L1", "L2", "L3", "L4">>
\* ContextLayer.TTL_CONFIG, minutes; an Optional[int] is a set of at most one number
TTL_CONFIG == [L1 |-> {}, L2 |-> {120}, L3 |-> {30}, L4 |-> {10}]

\* what callers pass to create_context
CallLevels == {"L2", "L3"}
Contents == {"p", "q"}
ContextNodes == {"n", "m"}

\* hashlib.sha256(content.encode()).hexdigest()[:12]; no two of the contents
\* used here have the same digest
content_hash(content) == <<"sha256", content>>

\* f"{level.value}_{content_hash}_{datetime.now().strftime('%Y%m%d%H%M%S')}"
record_id(level, content, now) == <<level, content_hash(content), now>>

ContextRecord(id, level, content, node_id, isolated, now) ==
    [id |-> id, level |-> level, content |-> content, node_id |-> node_id,
     created_at |-> now, ttl_minutes |-> {}, last_accessed |-> None,
     isolated |-> isolated]

\* ContextRecord.is_expired at the clock reading now
is_expired(record, now) ==
    \E ttl \in record.ttl_minutes : now > record.created_at + ttl * 60

\* ContextLayer.add_record: the level's TTL for a record without one, then
\* self.records[record.id] = record
add_record(ls, level, record) ==
    LET r == IF record.ttl_minutes = {}
             THEN [record EXCEPT !.ttl_minutes = TTL_CONFIG[level]]
             ELSE record
    IN [ls EXCEPT ![level] =
            [id \in DOMAIN @ \cup {r.id} |-> IF id = r.id THEN r ELSE @[id]]]

\* the levels, in the order of self.layers, whose get_record(id) returns a record
holders(ls, id, now) ==
    SelectSeq(ContextLevels,
              LAMBDA level : id \in DOMAIN ls[level] /\ ~is_expired(ls[level][id], now))

\* get_context: the record of the first layer whose get_record returns one,
\* its last_accessed set by get_record; Null stands for None
get_context(ls, id, now) ==
    IF holders(ls, id, now) = <<>> THEN Null
    ELSE [ls[Head(holders(ls, id, now))][id] EXCEPT !.last_accessed = now]

\* the layers after get_context(id) for every id of ids
accessed(ls, ids, now) ==
    [level \in DOMAIN ls |->
        [id \in DOMAIN ls[level] |->
            IF id \in ids /\ holders(ls, id, now) # <<>> /\ Head(holders(ls, id, now)) = level
            THEN [ls[level][id] EXCEPT !.last_accessed = now]
            ELSE ls[level][id]]]

create_context(level, content, node_id, isolated) ==
    /\ context_calls < MaxContextCalls
    /\ LET id == record_id(level, content, clock)
           record == ContextRecord(id, level, content, node_id, isolated, clock)
       IN
        /\ layers' = add_record(layers, level, record)
        /\ node_contexts' =
                [n \in DOMAIN node_contexts \cup {node_id} |->
                    IF n = node_id
                    THEN (IF n \in DOMAIN node_contexts THEN node_contexts[n] ELSE {})
                            \cup {id}
                    ELSE node_contexts[n]]
    /\ context_calls' = context_calls + 1
    /\ UNCHANGED <<clock, node_view>>
    /\ UNCHANGED <<bridge_vars, api_vars, task_vars, merger_vars>>
    /\ UNCHANGED <<phase, nodes, state_listeners, prompt_generator, dep_entries,
                   iteration, max_iterations, tasks, stored, sleeps, results,
                   ready_log, prompt_log, dispatch_log>>

get_node_context(node_id) ==
    /\ context_calls > 0
    /\ LET ids == IF node_id \in DOMAIN node_contexts THEN node_contexts[node_id] ELSE {}
           found == {id \in ids : get_context(layers, id, clock) # Null}
       IN
        /\ node_view' =
                [node_id |-> node_id,
                 records |-> {get_context(layers, id, clock) :
                                id \in {f \in found : get_context(layers, f, clock).isolated}}]
        /\ layers' = accessed(layers, ids, clock)
    /\ UNCHANGED <<clock, node_contexts, context_calls>>
    /\ UNCHANGED <<bridge_vars, api_vars, task_vars, merger_vars>>
    /\ UNCHANGED <<phase, nodes, state_listeners, prompt_generator, dep_entries,
                   iteration, max_iterations, tasks, stored, sleeps, results,
                   ready_log, prompt_log, dispatch_log>>

\* time passes: the clock shows the next reading
tick ==
    /\ clock < MaxClock
    /\ clock' = clock + 1
    /\ UNCHANGED <<layers, node_contexts, context_calls, node_view>>
    /\ UNCHANGED <<bridge_vars, api_vars, task_vars, merger_vars>>
    /\ UNCHANGED <<phase, nodes, state_listeners, prompt_generator, dep_entries,
                   iteration, max_iterations, tasks, stored, sleeps, results,
                   ready_log, prompt_log, dispatch_log>>

\* HierarchicalContextManager.__init__: four empty layers, empty indexes
NoContext ==
    /\ clock = 0
    /\ layers = [level \in SeqToSet(ContextLevels) |-> <<>>]
    /\ node_contexts = <<>>
    /\ context_calls = 0
    /\ node_view = Null

\* ResultMerger.__init__: no merge token, no rollback point
NoMerger ==
    /\ merge_tokens = <<>>
    /\ rollback_points = <<>>
    /\ objects = <<>>
    /\ merger_calls = 0
    /\ created = <<>>
    /\ merge_out = Null
    /\ rolled = Null

\* ------------------------------------------------------------ ResultMerger
\* number of merge and merge_results calls
MaxMergerCalls == 2
\* number of create_rollback_point calls made on a RollbackManager directly
MaxRollbackCalls == 4
\* ValidationResult
PASSED == "passed"
WARNING == "warning"
\* MergeStrategy
APPEND == "append"
REPLACE == "replace"
MERGE == "merge"
AGGREGATE == "aggregate"
MergeStrategy == {APPEND, REPLACE, MERGE, AGGREGATE}
\* ValidationEngine.__init__: time_window_seconds
time_window == 300
\* RollbackManager.__init__: the default max_rollback_points, that of the
\* RollbackManager of a ResultMerger
max_rollback_points == 10
\* RollbackManager(max_rollback_points=2): the RollbackManager used on its own
max_points == 2

\* ExecutionResult._compute_hash: the digest of the serialised content
_compute_hash(content) == <<"sha256", content>>

\* ExecutionResult: __post_init__ computes content_hash when none is given
ExecutionResult(node_id, role, content, timestamp, given_hash, status) ==
    [node_id      |-> node_id,
     role         |-> role,
     content      |-> content,
     timestamp    |-> timestamp,
     content_hash |-> IF given_hash = Null THEN _compute_hash(content) ELSE given_hash,
     status       |-> status]

\* the result lists handed to the merger: dict contents, timestamps in
\* seconds, one result with a content_hash that is not the hash of its
\* content, one with the status "error"
ResultAnalyst ==
    ExecutionResult("analyst", "analyst", [analysis |-> "done"], 0, Null, "success")
ResultDeveloper ==
    ExecutionResult("developer", "developer", [code |-> "done", analysis |-> "used"], 400,
                    Null, "success")
ResultForged ==
    ExecutionResult("analyst", "analyst", [analysis |-> "done"], 0,
                    _compute_hash([analysis |-> "forged"]), "success")
ResultError ==
    ExecutionResult("analyst", "analyst", [analysis |-> "done"], 0, Null, "error")
ResultLists ==
    {<<>>, <<ResultAnalyst>>, <<ResultAnalyst, ResultDeveloper>>,
     <<ResultDeveloper, ResultAnalyst>>, <<ResultForged>>,
     <<ResultError, ResultDeveloper>>}
ExpectedNodes == {{}, {"analyst", "developer"}}
BusinessRules ==
    {<<>>, [valid_statuses |-> {"success"}], [required_fields |-> {"analysis", "code"}]}

\* ValidationEngine.validate_timestamp_consistency
validate_timestamp_consistency(exec_results) ==
    LET timestamps == {exec_results[i].timestamp : i \in 1..Len(exec_results)}
        min_time == CHOOSE x \in timestamps : \A y \in timestamps : x <= y
        max_time == CHOOSE x \in timestamps : \A y \in timestamps : y <= x
    IN IF exec_results = <<>> THEN PASSED
       ELSE IF max_time - min_time <= time_window THEN PASSED
       ELSE WARNING

\* ValidationEngine.validate_content_hash
validate_content_hash(exec_results) ==
    IF \E i \in 1..Len(exec_results) :
            exec_results[i].content_hash # _compute_hash(exec_results[i].content)
    THEN FAILED
    ELSE PASSED

\* ValidationEngine.validate_data_completeness
validate_data_completeness(exec_results, expected_nodes) ==
    IF expected_nodes = {} THEN PASSED
    ELSE IF expected_nodes \subseteq {exec_results[i].node_id : i \in 1..Len(exec_results)}
         THEN PASSED
         ELSE FAILED

\* ValidationEngine.validate_business_logic; rules is a dict, <<>> for none
validate_business_logic(exec_results, rules) ==
    IF rules = <<>> THEN PASSED
    ELSE IF \E i \in 1..Len(exec_results) :
                \/ /\ "required_fields" \in DOMAIN rules
                   /\ \E f \in rules["required_fields"] : f \notin DOMAIN exec_results[i].content
                \/ /\ "valid_statuses" \in DOMAIN rules
                   /\ rules["valid_statuses"] # {}
                   /\ exec_results[i].status \notin rules["valid_statuses"]
         THEN FAILED
         ELSE PASSED

\* ValidationEngine.run_all_validations
run_all_validations(exec_results, expected_nodes, business_rules) ==
    [timestamp_consistency |-> validate_timestamp_consistency(exec_results),
     content_hash          |-> validate_content_hash(exec_results),
     data_completeness     |-> validate_data_completeness(exec_results, expected_nodes),
     business_logic        |-> validate_business_logic(exec_results, business_rules)]

\* a merge that lets failed validations pass
no_errors(validations) == {}

\* ResultMerger.merge: the validations that returned FAILED
errors(validations) == {name \in DOMAIN validations : validations[name] = FAILED}

\* IdempotentMerger.generate_merge_token: the digest of the sorted content
\* hashes, i.e. of each hash with the number of times it occurs
generate_merge_token(exec_results) ==
    {<<exec_results[i].content_hash,
       Cardinality({j \in 1..Len(exec_results) :
                        exec_results[j].content_hash = exec_results[i].content_hash})>>
        : i \in 1..Len(exec_results)}

\* IdempotentMerger.is_duplicate_merge
is_duplicate_merge(token) == token \in DOMAIN merge_tokens

\* sorted(exec_results, key=lambda r: r.timestamp): stable
RECURSIVE sorted_by_timestamp(_)
sorted_by_timestamp(exec_results) ==
    IF exec_results = <<>> THEN <<>>
    ELSE LET first == CHOOSE i \in 1..Len(exec_results) :
                        /\ \A j \in 1..Len(exec_results) :
                                exec_results[i].timestamp <= exec_results[j].timestamp
                        /\ \A j \in 1..(i - 1) :
                                exec_results[j].timestamp # exec_results[i].timestamp
         IN <<exec_results[first]>> \o
            sorted_by_timestamp([k \in 1..(Len(exec_results) - 1) |->
                                    IF k < first THEN exec_results[k] ELSE exec_results[k + 1]])

\* max(exec_results, key=lambda r: r.timestamp): the first of the latest exec_results
latest(exec_results) ==
    exec_results[CHOOSE i \in 1..Len(exec_results) :
                /\ \A j \in 1..Len(exec_results) : exec_results[j].timestamp <= exec_results[i].timestamp
                /\ \A j \in 1..(i - 1) : exec_results[j].timestamp # exec_results[i].timestamp]

\* IdempotentMerger._deep_merge; no value of the contents merged here is a
\* dict, so every key of update replaces the key of base
_deep_merge(base, update) ==
    [key \in DOMAIN base \cup DOMAIN update |->
        IF key \in DOMAIN update THEN update[key] ELSE base[key]]

RECURSIVE deep_merge_all(_, _)
deep_merge_all(merged, exec_results) ==
    IF exec_results = <<>> THEN merged
    ELSE deep_merge_all(_deep_merge(merged, Head(exec_results).content), Tail(exec_results))

\* IdempotentMerger.merge_results, the merged data of a merge that goes ahead
merged_by(exec_results, strategy) ==
    CASE strategy = APPEND -> [i \in 1..Len(exec_results) |-> exec_results[i].content]
      [] strategy = REPLACE -> latest(exec_results).content
      [] strategy = MERGE -> deep_merge_all(<<>>, sorted_by_timestamp(exec_results))
      [] strategy = AGGREGATE ->
            [role \in {exec_results[i].role : i \in 1..Len(exec_results)} |->
                LET of_role == SelectSeq(exec_results, LAMBDA r : r.role = role)
                IN [i \in 1..Len(of_role) |->
                        [node_id   |-> of_role[i].node_id,
                         content   |-> of_role[i].content,
                         timestamp |-> of_role[i].timestamp]]]

\* IdempotentMerger.merge_results: what it returns (Null for None) and the
\* merge tokens it leaves
merge_results(exec_results, strategy) ==
    IF exec_results = <<>> THEN [merged |-> Null, merge_tokens |-> merge_tokens]
    ELSE LET token == generate_merge_token(exec_results) IN
         IF is_duplicate_merge(token)
         THEN [merged |-> Null, merge_tokens |-> merge_tokens]
         ELSE LET merged == merged_by(exec_results, strategy) IN
              [merged       |-> merged,
               merge_tokens |-> [t \in DOMAIN merge_tokens \cup {token} |->
                                    IF t = token THEN <<"sha256", strategy, merged>>
                                    ELSE merge_tokens[t]]]

\* the id create_rollback_point derives from the clock and the number of points
point_id(now, length) == <<"sha256", now, length>>

\* RollbackManager.create_rollback_point with max_rollback_points = limit: the
\* id returned and the points kept; deepcopy stores the value of the state
rollback_point_created(state, limit) ==
    LET id == point_id(clock, Len(rollback_points))
        appended == Append(rollback_points, [id |-> id, state |-> state, timestamp |-> clock])
    IN [id |-> id,
        rollback_points |-> IF Len(appended) > limit THEN Tail(appended) ELSE appended]

\* RollbackManager.rollback_to: the state of the last point with the id, or None
rollback_state(id) ==
    LET found == {i \in 1..Len(rollback_points) : rollback_points[i].id = id}
    IN IF found = {} THEN None
       ELSE rollback_points[CHOOSE i \in found : \A j \in found : j <= i].state

\* a call of IdempotentMerger.merge_results
merge_results_call(exec_results, strategy) ==
    /\ merge_tokens' = merge_results(exec_results, strategy).merge_tokens
    /\ merge_out' = [call          |-> "merge_results",
                     exec_results       |-> exec_results,
                     strategy      |-> strategy,
                     validations   |-> <<>>,
                     success       |-> TRUE,
                     merged_data   |-> merge_results(exec_results, strategy).merged,
                     rollback_point |-> Null]
    /\ merger_calls' = merger_calls + 1
    /\ UNCHANGED <<rollback_points, objects, created, rolled>>
    /\ UNCHANGED <<bridge_vars, api_vars, task_vars, ctx_vars>>
    /\ UNCHANGED <<phase, nodes, state_listeners, prompt_generator, dep_entries,
                   iteration, max_iterations, tasks, stored, sleeps, results,
                   ready_log, prompt_log, dispatch_log>>

\* ResultMerger.merge; the state of its rollback point is the list of the
\* results' fields (to_dict)
merge(exec_results, strategy, expected_nodes, business_rules, create_rollback) ==
    LET validations == run_all_validations(exec_results, expected_nodes, business_rules)
        point == rollback_point_created(exec_results, max_rollback_points)
        merging == merge_results(exec_results, strategy)
    IN  /\ merger_calls' = merger_calls + 1
        /\ IF errors(validations) # {}
           THEN /\ merge_out' = [call           |-> "merge",
                                 exec_results        |-> exec_results,
                                 strategy       |-> strategy,
                                 validations    |-> validations,
                                 success        |-> FALSE,
                                 merged_data    |-> Null,
                                 rollback_point |-> Null]
                /\ UNCHANGED <<merge_tokens, rollback_points, created>>
           ELSE /\ IF create_rollback
                   THEN /\ rollback_points' = point.rollback_points
                        /\ created' = Append(created, [id    |-> point.id,
                                                       state |-> exec_results])
                   ELSE UNCHANGED <<rollback_points, created>>
                /\ merge_tokens' = merging.merge_tokens
                /\ merge_out' = [call           |-> "merge",
                                 exec_results        |-> exec_results,
                                 strategy       |-> strategy,
                                 validations    |-> validations,
                                 success        |-> TRUE,
                                 merged_data    |-> merging.merged,
                                 rollback_point |-> IF create_rollback THEN point.id
                                                    ELSE Null]
        /\ UNCHANGED <<objects, rolled>>
        /\ UNCHANGED <<bridge_vars, api_vars, task_vars, ctx_vars>>
        /\ UNCHANGED <<phase, nodes, state_listeners, prompt_generator, dep_entries,
                       iteration, max_iterations, tasks, stored, sleeps, results,
                       ready_log, prompt_log, dispatch_log>>

\* RollbackManager.create_rollback_point(state), state being the caller's object
create_rollback_point ==
    LET point == rollback_point_created(objects["state"], max_points) IN
    /\ merger_calls < MaxRollbackCalls
    /\ merger_calls' = merger_calls + 1
    /\ rollback_points' = point.rollback_points
    /\ created' = Append(created, [id |-> point.id, state |-> objects["state"]])
    /\ UNCHANGED <<merge_tokens, objects, merge_out, rolled>>
    /\ UNCHANGED <<bridge_vars, api_vars, task_vars, ctx_vars>>
    /\ UNCHANGED <<phase, nodes, state_listeners, prompt_generator, dep_entries,
                   iteration, max_iterations, tasks, stored, sleeps, results,
                   ready_log, prompt_log, dispatch_log>>

\* the caller changes the object it passed to create_rollback_point, to one
\* of two values
change_object(value) ==
    /\ objects["state"] # value
    /\ objects' = [objects EXCEPT !["state"] = value]
    /\ UNCHANGED <<merge_tokens, rollback_points, merger_calls, created, merge_out, rolled>>
    /\ UNCHANGED <<bridge_vars, api_vars, task_vars, ctx_vars>>
    /\ UNCHANGED <<phase, nodes, state_listeners, prompt_generator, dep_entries,
                   iteration, max_iterations, tasks, stored, sleeps, results,
                   ready_log, prompt_log, dispatch_log>>

\* RollbackManager.rollback_to(point_id)
rollback_to(id) ==
    /\ rolled' = [point_id |-> id, state |-> rollback_state(id), calls |-> merger_calls]
    /\ rolled' # rolled
    /\ UNCHANGED <<merge_tokens, rollback_points, objects, merger_calls, created, merge_out>>
    /\ UNCHANGED <<bridge_vars, api_vars, task_vars, ctx_vars>>
    /\ UNCHANGED <<phase, nodes, state_listeners, prompt_generator, dep_entries,
                   iteration, max_iterations, tasks, stored, sleeps, results,
                   ready_log, prompt_log, dispatch_log>>

\* ------------------------------------------------------------ specification
Init ==
    /\ phase = "build"
    /\ nodes = <<>>
    /\ state_listeners = <<>>
    /\ prompt_generator = None
    /\ dep_entries = 0
    /\ iteration = 0
    /\ max_iterations = 0
    /\ tasks = {}
    /\ stored = {}
    /\ sleeps = 0
    /\ results = None
    /\ ready_log = <<>>
    /\ prompt_log = <<>>
    /\ dispatch_log = <<>>
    /\ audit_log = <<>>
    /\ bridge_calls = 0
    /\ last_request = Null
    /\ last_response = Null
    /\ last_policy = Null
    /\ audit_view = Null
    /\ invoked = <<>>
    /\ returned = None
    /\ update_calls = 0
    /\ last_update = <<>>
    /\ task_nodes = <<>>
    /\ reported = {}
    /\ updated = None
    /\ NoContext
    /\ NoMerger

Build ==
    \/ \E S \in {{"A"}, {"A", "B"}} : register_nodes(S)
    \/ \E node_id \in BuildIds : \E upstream_ids \in SUBSET BuildIds :
          set_node_dependencies(node_id, upstream_ids)

Run ==
    \/ execute_dag_start
    \/ loop_dispatch
    \/ loop_sleep
    \/ loop_break
    \/ loop_exhausted
    \/ \E node_id \in NodeIds : \E outcome \in ExecutorOutcomes :
          _execute_node(node_id, outcome)

Next == Build \/ Run

Spec == Init /\ [][Next]_vars

\* the steps execute_dag takes by itself once it is called: the event loop
\* keeps running the coroutine whenever it is not awaiting executor calls
LoopStep == loop_dispatch \/ loop_sleep \/ loop_break \/ loop_exhausted

SpecFair == Spec /\ WF_vars(LoopStep)

\* A graph over A..D built as in __main__: one register_nodes call, then one
\* set_node_dependencies call whose dict gives B, C and D their upstream lists
\* (any lists that point to earlier nodes); then execute_dag.
DagDependencies ==
    {deps \in [{"B", "C", "D"} -> SUBSET NodeIds] :
        /\ deps["B"] \subseteq {"A"}
        /\ deps["C"] \subseteq {"A", "B"}
        /\ deps["D"] \subseteq {"A", "B", "C"}}

BuiltDag(deps) ==
    set_dependency(
        set_dependency(
            set_dependency([id \in NodeIds |-> ExecutionNode(id)], "B", deps["B"]),
            "C", deps["C"]),
        "D", deps["D"])

InitDag ==
    /\ phase = "build"
    /\ \E deps \in DagDependencies : nodes = BuiltDag(deps)
    /\ state_listeners = add_listener(<<>>, NodeIds)
    /\ prompt_generator = None
    /\ dep_entries = 3
    /\ iteration = 0
    /\ max_iterations = 0
    /\ tasks = {}
    /\ stored = {}
    /\ sleeps = 0
    /\ results = None
    /\ ready_log = [id \in NodeIds |-> 0]
    /\ prompt_log = [id \in NodeIds |-> 0]
    /\ dispatch_log = [id \in NodeIds |-> 0]
    /\ audit_log = <<>>
    /\ bridge_calls = 0
    /\ last_request = Null
    /\ last_response = Null
    /\ last_policy = Null
    /\ audit_view = Null
    /\ invoked = <<>>
    /\ returned = None
    /\ update_calls = 0
    /\ last_update = <<>>
    /\ task_nodes = <<>>
    /\ reported = {}
    /\ updated = None
    /\ NoContext
    /\ NoMerger

SpecDag == InitDag /\ [][Run]_vars

\* The chain A -> B, B constructed with context_data, built by one
\* register_nodes and one set_node_dependencies call; execute_dag runs it while
\* callers issue bridge requests at any moment.
InitBridge ==
    /\ phase = "build"
    /\ nodes = set_dependency(
                    [id \in {"A", "B"} |->
                        IF id = "B"
                        THEN [ExecutionNode(id) EXCEPT !.context_data = {"key"}]
                        ELSE ExecutionNode(id)],
                    "B", {"A"})
    /\ state_listeners = add_listener(<<>>, {"A", "B"})
    /\ prompt_generator = None
    /\ dep_entries = 1
    /\ iteration = 0
    /\ max_iterations = 0
    /\ tasks = {}
    /\ stored = {}
    /\ sleeps = 0
    /\ results = None
    /\ ready_log = [id \in {"A", "B"} |-> 0]
    /\ prompt_log = [id \in {"A", "B"} |-> 0]
    /\ dispatch_log = [id \in {"A", "B"} |-> 0]
    /\ audit_log = <<>>
    /\ bridge_calls = 0
    /\ last_request = Null
    /\ last_response = Null
    /\ last_policy = Null
    /\ audit_view = Null
    /\ invoked = <<>>
    /\ returned = None
    /\ update_calls = 0
    /\ last_update = <<>>
    /\ task_nodes = <<>>
    /\ reported = {}
    /\ updated = None
    /\ NoContext
    /\ NoMerger

\* a caller issues a request; the number of calls is bounded by MaxBridgeCalls
Bridge ==
    /\ bridge_calls < MaxBridgeCalls
    /\ \E source_node \in SourceIds : \E target_node \in TargetIds :
        \E scope \in Scopes : \E consent_token \in ConsentTokens :
            bridge_context(BridgeRequest(source_node, target_node, scope, consent_token))

NextBridge == Run \/ Bridge

SpecBridge == InitBridge /\ [][NextBridge]_vars

\* The same chain and callers, with callers that also use a scheduler whose
\* _check_bridge_policy is overridden, and that read the audit log.
BridgePolicy ==
    /\ bridge_calls < MaxBridgeCalls
    /\ \E target_node \in TargetIds : \E scope \in PolicyScopes :
        \E consent_token \in PolicyTokens : \E policy \in Policies :
            bridge_context_policy(
                BridgeRequest("A", target_node, scope, consent_token), policy)

NextPolicy == Run \/ BridgePolicy \/ get_audit_log

SpecPolicy == InitBridge /\ [][NextPolicy]_vars

\* The same chain, the callers of bridge_context running in a thread other
\* than the event loop's (an executor function, for one, runs in the pool of
\* run_in_executor): their calls fall between any two statements of
\* _execute_node.
RunThreads ==
    \/ execute_dag_start
    \/ loop_dispatch
    \/ loop_sleep
    \/ loop_break
    \/ loop_exhausted
    \/ \E node_id \in NodeIds : \E outcome \in ExecutorOutcomes :
          _execute_node_store(node_id, outcome)
    \/ \E node_id \in NodeIds : _execute_node_update_state(node_id)

NextThreads == RunThreads \/ Bridge

SpecThreads == InitBridge /\ [][NextThreads]_vars

\* The same chain, registered and not run: users of the state manager
\* subscribe callbacks of their own and call update_state themselves.
Manager ==
    \/ /\ phase = "build"
       /\ \E node_id \in CallIds : \E callback \in Callbacks :
            add_listener_call(node_id, callback)
    \/ /\ phase = "build"
       /\ \E node_id \in CallIds : \E new_state \in NodeState :
            update_state_call(node_id, new_state)

SpecManager == InitBridge /\ [][Manager]_vars

\* A TaskDAG of three tasks with distinct titles, the third depending on one
\* or both of the others by title, as decompose_task writes dependencies;
\* callers report task states and ask for the ready tasks in any order.
InitTasks ==
    /\ phase = "build"
    /\ nodes = <<>>
    /\ state_listeners = <<>>
    /\ prompt_generator = None
    /\ dep_entries = 0
    /\ iteration = 0
    /\ max_iterations = 0
    /\ tasks = {}
    /\ stored = {}
    /\ sleeps = 0
    /\ results = None
    /\ ready_log = <<>>
    /\ prompt_log = <<>>
    /\ dispatch_log = <<>>
    /\ audit_log = <<>>
    /\ bridge_calls = 0
    /\ last_request = Null
    /\ last_response = Null
    /\ last_policy = Null
    /\ audit_view = Null
    /\ invoked = <<>>
    /\ returned = None
    /\ update_calls = 0
    /\ last_update = <<>>
    /\ \E title \in [1..3 -> Titles] :
       \E dependencies \in (SUBSET {title[1], title[2]}) \ {{}} :
            /\ \A i, j \in 1..3 : i # j => title[i] # title[j]
            /\ task_nodes = [i \in 1..3 |->
                                TaskNode(TaskIds[i], title[i],
                                         IF i = 3 THEN dependencies ELSE {})]
    /\ reported = {}
    /\ updated = None
    /\ NoContext
    /\ NoMerger

Tasks ==
    \/ /\ phase = "build"
       /\ \E task_id \in TaskCallIds : \E new_state \in TaskState :
            update_task_state(task_id, new_state)
    \/ get_ready_tasks

SpecTasks == InitTasks /\ [][Tasks]_vars

\* a scheduler that is constructed and not used
NoScheduler ==
    /\ phase = "build"
    /\ nodes = <<>>
    /\ state_listeners = <<>>
    /\ prompt_generator = None
    /\ dep_entries = 0
    /\ iteration = 0
    /\ max_iterations = 0
    /\ tasks = {}
    /\ stored = {}
    /\ sleeps = 0
    /\ results = None
    /\ ready_log = <<>>
    /\ prompt_log = <<>>
    /\ dispatch_log = <<>>
    /\ audit_log = <<>>
    /\ bridge_calls = 0
    /\ last_request = Null
    /\ last_response = Null
    /\ last_policy = Null
    /\ audit_view = Null
    /\ invoked = <<>>
    /\ returned = None
    /\ update_calls = 0
    /\ last_update = <<>>
    /\ task_nodes = <<>>
    /\ reported = {}
    /\ updated = None

\* A context manager on which the nodes n and m create records, at any
\* moments, and read their node context.
InitContext == NoScheduler /\ NoContext /\ NoMerger

Context ==
    \/ /\ context_calls < MaxContextCalls
       /\ \E level \in CallLevels : \E content \in Contents :
          \E node_id \in ContextNodes : \E isolated \in BOOLEAN :
                create_context(level, content, node_id, isolated)
    \/ /\ context_calls > 0
       /\ \E node_id \in ContextNodes : get_node_context(node_id)
    \/ tick

SpecContext == InitContext /\ [][Context]_vars

\* A ResultMerger and its IdempotentMerger, called with result lists.
InitMerger == NoScheduler /\ NoContext /\ NoMerger

Merger ==
    \/ /\ merger_calls < MaxMergerCalls
       /\ \E rs \in ResultLists : \E strategy \in MergeStrategy :
                merge_results_call(rs, strategy)
    \/ /\ merger_calls < MaxMergerCalls
       /\ \E rs \in ResultLists : \E strategy \in MergeStrategy :
          \E expected_nodes \in ExpectedNodes : \E business_rules \in BusinessRules :
          \E create_rollback \in BOOLEAN :
                merge(rs, strategy, expected_nodes, business_rules, create_rollback)

SpecMerger == InitMerger /\ [][Merger]_vars

\* A RollbackManager on which a caller creates points of an object it goes on
\* changing, and rolls back to ids, the clock advancing at any moment.
InitRollback ==
    /\ NoScheduler
    /\ NoContext
    /\ merge_tokens = <<>>
    /\ rollback_points = <<>>
    /\ objects = [o \in {"state"} |-> "first"]
    /\ merger_calls = 0
    /\ created = <<>>
    /\ merge_out = Null
    /\ rolled = Null

Rollback ==
    \/ create_rollback_point
    \/ /\ merger_calls >= 0
       /\ \E value \in {"first", "second"} : change_object(value)
    \/ /\ merger_calls > 0
       /\ \E now \in 0..MaxClock : \E length \in 0..max_points : rollback_to(point_id(now, length))
    \/ tick

SpecRollback == InitRollback /\ [][Rollback]_vars


\* ------------------------------------------------------------------ claims
TypeOK ==
    /\ phase \in {"build", "run", "done"}
    /\ DOMAIN nodes \subseteq NodeIds
    /\ \A id \in DOMAIN nodes : nodes[id].state \in NodeState
    /\ tasks \subseteq DOMAIN nodes
    /\ iteration \in 0..max_iterations

Upstream(v) == nodes[v].upstream_nodes

\* the transitive upstream of v among the registered nodes
RECURSIVE AncestorsFrom(_, _)
AncestorsFrom(frontier, seen) ==
    LET next == UNION {Upstream(a) \cap DOMAIN nodes : a \in frontier} \ seen IN
    IF next = {} THEN seen ELSE AncestorsFrom(next, seen \cup next)
Ancestors(v) == AncestorsFrom({v}, {})

\* the executor has raised for no node / has returned only values json.dumps accepts
NoRaise == \A n \in DOMAIN nodes : nodes[n].error = None
Serialisable == \A n \in DOMAIN nodes : nodes[n].result # "opaque"
AllTerminal == \A n \in DOMAIN nodes : nodes[n].state \in {COMPLETED, FAILED, BLOCKED}

\* C1: a dependent with two (or more) upstream parents, all of them COMPLETED
\* with serialisable results, has been promoted to READY exactly once: one
\* transition into READY and one payload assembly.
C1_PromotedExactlyOnce ==
    \A d \in DOMAIN nodes :
        (/\ Cardinality(Upstream(d)) >= 2
         /\ Serialisable
         /\ \A u \in Upstream(d) : u \in DOMAIN nodes /\ nodes[u].state = COMPLETED)
        => (ready_log[d] = 1 /\ prompt_log[d] = 1)

\* C2: over an acyclic graph with an executor that never raises, execute_dag
\* returns a status map in which every node is COMPLETED.
C2_AllCompleted ==
    (phase = "done" /\ NoRaise) =>
        \A n \in DOMAIN nodes : results[n].state = COMPLETED

\* C3: in the diamond A->B, A->C, (B,C)->D no node is moved to READY or has its
\* payload assembled more than once, B and C leave IDLE only after A
\* completed, D only after B and C completed, and a run in which every
\* executor call returned a serialisable value ends with four COMPLETED
\* entries, each node having made exactly one transition into READY.
IsDiamond ==
    /\ DOMAIN nodes = {"A", "B", "C", "D"}
    /\ Upstream("A") = {}
    /\ Upstream("B") = {"A"}
    /\ Upstream("C") = {"A"}
    /\ Upstream("D") = {"B", "C"}

C3_DiamondReadyOnce ==
    IsDiamond =>
        /\ \A n \in DOMAIN nodes : ready_log[n] <= 1 /\ prompt_log[n] <= 1
        /\ \A n \in {"B", "C"} : nodes[n].state # IDLE => nodes["A"].state = COMPLETED
        /\ nodes["D"].state # IDLE =>
                nodes["B"].state = COMPLETED /\ nodes["C"].state = COMPLETED
        /\ (phase = "done" /\ NoRaise /\ Serialisable) =>
                \A n \in DOMAIN nodes :
                    results[n].state = COMPLETED /\ ready_log[n] = 1

\* C4: a node that is READY, EXECUTING, COMPLETED or FAILED has all of its
\* upstream nodes COMPLETED.
C4_ReadyOnlyIfUpstreamCompleted ==
    \A v \in DOMAIN nodes :
        nodes[v].state \in {READY, EXECUTING, COMPLETED, FAILED}
            => all_deps_completed(nodes, v)

\* C5: once the roots are seeded, no node is still IDLE while all of its
\* upstream nodes are COMPLETED (every update_state call has returned in
\* every state of the model).
C5_PromotionComplete ==
    phase # "build" =>
        \A v \in DOMAIN nodes :
            nodes[v].state = IDLE => ~all_deps_completed(nodes, v)

\* C6: each node is handed to the executor at most once, and exactly once in a
\* finished run when all of its ancestors (and the node itself) succeeded.
C6_DispatchedOnce ==
    \A n \in DOMAIN nodes :
        /\ dispatch_log[n] <= 1
        /\ (/\ phase = "done"
            /\ \A a \in Ancestors(n) \cup {n} :
                    a \in DOMAIN nodes /\ nodes[a].state = COMPLETED)
           => dispatch_log[n] = 1

\* C7: every dependent of a FAILED node is BLOCKED.
C7_DependentsBlocked ==
    \A v \in DOMAIN nodes :
        (\E u \in Upstream(v) : u \in DOMAIN nodes /\ nodes[u].state = FAILED)
            => nodes[v].state = BLOCKED

\* C8: in a finished run in which some node failed, every node none of whose
\* ancestors failed has been executed to its end (COMPLETED, or FAILED when
\* it is itself a node that failed).
C8_FailureIsolated ==
    (phase = "done" /\ ~NoRaise) =>
        \A n \in DOMAIN nodes :
            (\A a \in Ancestors(n) : nodes[a].state # FAILED)
                => results[n].state \in {COMPLETED, FAILED}

\* C9: the loop never sleeps to re-check, and execute_dag never returns the
\* status map as a normal result while some node is not terminal.
C9_DeadlockReported ==
    /\ sleeps = 0
    /\ phase = "done" => AllTerminal

\* the fields ExecutionNode declares as the node's isolated (private) input
IsolatedFields == {"prompt"}

\* what a successful bridge call is to return for the target node, by scope
ExpectedView(node, scope) ==
    CASE scope = "private" -> [f \in {"id", "state"} |-> node[f]]
      [] scope = "shared"  -> [f \in NodeFields \ IsolatedFields |-> node[f]]
      [] scope = "public"  -> [f \in NodeFields |-> node[f]]

\* C10: a bridge call that is accepted (valid token, both nodes registered)
\* with scope private, shared or public returns, as data, exactly {id, state}
\* of the target, the target's full record without its isolated fields, or the
\* full record, as the record stands at the call.
C10_FilteredByScope ==
    [][(/\ bridge_calls' = bridge_calls + 1
        /\ last_response'.success
        /\ last_request'.scope \in {"private", "shared", "public"})
       => last_response'.data =
            ExpectedView(nodes[last_request'.target_node], last_request'.scope)]_vars

\* a shared request answered while the target B was READY with its prompt
\* assembled: the answer carries B's context_data and state but no prompt
C10_Witness ==
    /\ last_response # Null
    /\ last_response.success
    /\ last_request.scope = "shared"
    /\ last_response.data["state"] = READY
    /\ nodes["B"].state = READY
    /\ nodes["B"].prompt # NoPrompt
    /\ "prompt" \notin DOMAIN last_response.data
    /\ last_response.data["context_data"] = {"key"}

\* ------------------------------------------------------------ bridge claims
\* the step is a bridge_context call
BridgeCall == bridge_calls' = bridge_calls + 1
Registered(request) ==
    request.source_node \in DOMAIN nodes /\ request.target_node \in DOMAIN nodes
LastEntry(log) == log[Len(log)]
OneEntryAppended == Len(audit_log') = Len(audit_log) + 1

\* C11: every call of bridge_context appends exactly one entry to the audit
\* log, whatever the outcome.
C11_OneEntryPerCall ==
    [][BridgeCall => OneEntryAppended]_vars

\* the decision the audit entry of a call is to carry
ExpectedDecision(request, policy) ==
    IF /\ _validate_consent_token(request)
       /\ policy # Null
       /\ get(policy, "allowed", FALSE)
    THEN "ALLOWED" ELSE "DENIED"

\* C12: the audit entry recorded for a bridge call has decision ALLOWED when
\* the token is valid and the policy allows, and DENIED in every other case.
C12_DecisionRecorded ==
    [][BridgeCall =>
        /\ OneEntryAppended
        /\ LastEntry(audit_log').decision = ExpectedDecision(last_request', last_policy')]_vars

\* C13: a call between two registered nodes whose token is shorter than the
\* minimum length returns success = false and data = null, and records an
\* audit entry with decision DENIED.
C13_ShortTokenDenied ==
    [][(/\ BridgeCall
        /\ Len(last_request'.consent_token) < MinTokenLength
        /\ Registered(last_request'))
       => /\ ~last_response'.success
          /\ last_response'.data = Null
          /\ OneEntryAppended
          /\ LastEntry(audit_log').decision = "DENIED"]_vars

\* C14: when the policy denies a request carrying a valid token, the call
\* returns success = false with the policy's reason, discloses no field of the
\* target node, and appends a DENIED audit entry carrying the reason.
C14_PolicyDenial ==
    [][(/\ BridgeCall
        /\ _validate_consent_token(last_request')
        /\ ~get(last_policy', "allowed", FALSE))
       => /\ ~last_response'.success
          /\ DOMAIN last_response'.data = {"error"}
          /\ last_response'.data["error"] = get(last_policy', "reason", "Policy denied")
          /\ last_response'.source_namespaces = <<>>
          /\ OneEntryAppended
          /\ LastEntry(audit_log').decision = "DENIED"
          /\ LastEntry(audit_log').reason = get(last_policy', "reason", "")
          /\ LastEntry(audit_log').target = last_request'.target_node]_vars

\* a valid request for B, which has completed with a result, denied by a
\* policy with the reason "forbidden"
C14_Witness ==
    /\ last_policy = [allowed |-> FALSE, reason |-> "forbidden"]
    /\ last_request.target_node = "B"
    /\ nodes["B"].state = COMPLETED
    /\ ~last_response.success
    /\ last_response.data = [error |-> "forbidden"]
    /\ audit_log # <<>>
    /\ LastEntry(audit_log).decision = "DENIED"
    /\ LastEntry(audit_log).reason = "forbidden"

\* C15: a bridge_context call leaves every node as it was, and with the nodes
\* everything else of the scheduler but the audit log.
C15_NodesUntouched ==
    [][BridgeCall =>
        /\ nodes' = nodes
        /\ UNCHANGED <<phase, state_listeners, prompt_generator, iteration,
                       max_iterations, tasks, stored, sleeps, results>>]_vars

\* an answered shared request for B while B was EXECUTING, B's prompt still
\* in place after the call
C15_Witness ==
    /\ last_response # Null
    /\ last_response.success
    /\ last_request.scope = "shared"
    /\ last_response.data["state"] = EXECUTING
    /\ nodes["B"].state = EXECUTING
    /\ nodes["B"].prompt # NoPrompt
    /\ nodes["B"].context_data = {"key"}
    /\ Len(audit_log) = bridge_calls

\* C16: the audit log only grows at its end: every step keeps the entries it
\* had at their positions, a new entry is the one of the call just decided,
\* and get_audit_log leaves the log as it is.
C16_AuditAppendOnly ==
    [][/\ Len(audit_log') \in {Len(audit_log), Len(audit_log) + 1}
       /\ SubSeq(audit_log', 1, Len(audit_log)) = audit_log
       /\ OneEntryAppended =>
            /\ BridgeCall
            /\ LastEntry(audit_log').target = last_request'.target_node
            /\ LastEntry(audit_log').scope = last_request'.scope
            /\ LastEntry(audit_log').decision =
                    IF last_response'.success THEN "ALLOWED" ELSE "DENIED"
       /\ audit_view' # audit_view => audit_log' = audit_log]_vars

\* two different entries, the log read by get_audit_log between the two calls
C16_Witness ==
    /\ Len(audit_log) = 2
    /\ audit_log[1].decision = "DENIED"
    /\ audit_log[2].decision = "ALLOWED"
    /\ audit_view = <<audit_log[1]>>

\* C17: no snapshot returned by bridge_context shows a result or an error
\* together with the state EXECUTING.
C17_NoTornSnapshot ==
    (/\ last_response # Null
     /\ last_response.success
     /\ last_request.scope \in {"public", "shared"})
    => ~(/\ last_response.data["state"] = EXECUTING
         /\ \/ last_response.data["result"] # None
            \/ last_response.data["error"] # None)

\* ------------------------------------------------------ dependency claims
HasCycle == \E n \in DOMAIN nodes : n \in Ancestors(n)

\* C18: execute_dag never starts on (seeds, dispatches over) a dependency map
\* with a cycle: such a map has been rejected when the graph was built.
C18_CycleRejected ==
    phase # "build" => ~HasCycle

\* C19: among the registered nodes, u is in v.upstream_nodes exactly when v
\* is in u.downstream_nodes.
C19_DownstreamIsInverse ==
    \A u \in DOMAIN nodes : \A v \in DOMAIN nodes :
        (u \in nodes[v].upstream_nodes) <=> (v \in SeqToSet(nodes[u].downstream_nodes))

\* the dependency dicts over BuildIds: no entry, one entry, or two entries
\* with different keys, in either order
DependencyMaps ==
    {<<>>}
    \cup {<<<<n, u>>>> : n \in BuildIds, u \in SUBSET BuildIds}
    \cup {<<<<n, u>>, <<m, w>>>> :
            <<n, u, m, w>> \in {q \in BuildIds \X (SUBSET BuildIds) \X BuildIds
                                        \X (SUBSET BuildIds) : q[1] # q[3]}}

\* C20: applying a dependency dict a second time leaves every node's
\* upstream_nodes and downstream_nodes as the first application left them.
C20_Idempotent ==
    \A map \in DependencyMaps :
        set_dependencies(set_dependencies(nodes, map), map) = set_dependencies(nodes, map)

\* B depends on A after two or more entries were applied, A's downstream list
\* holding B once
C20_Witness ==
    /\ dep_entries >= 2
    /\ DOMAIN nodes = {"A", "B"}
    /\ nodes["B"].upstream_nodes = {"A"}
    /\ nodes["A"].downstream_nodes = <<"B">>
    /\ set_dependencies(nodes, <<<<"B", {"A"}>>>>) = nodes

\* ------------------------------------------------------ state manager claims
\* the step is an update_state call made from outside
UpdateCall == update_calls' = update_calls + 1

\* C21: update_state with an id that is not registered returns False, leaves
\* every node (state and timestamps) as it was and calls no listener, also
\* when listeners are subscribed to that id.
C21_UnknownIdRejected ==
    [][(UpdateCall /\ last_update'[1] \notin DOMAIN nodes)
       => /\ returned' = False
          /\ nodes' = nodes
          /\ invoked' = <<>>]_vars

\* update_state("X", ...) was called while a callback was subscribed to "X"
C21_Witness ==
    /\ last_update # <<>>
    /\ last_update[1] = "X"
    /\ "X" \in DOMAIN state_listeners
    /\ returned = False
    /\ invoked = <<>>

\* the calls a transition of node_id to new_state owes to the subscribers
OwedCalls(node_id, new_state) ==
    [i \in 1..Len(state_listeners[node_id]) |->
        <<state_listeners[node_id][i], node_id, new_state>>]

\* C22: update_state on a registered node has, when it returns, called the
\* node's listeners once each in subscription order, a raising one included
\* and those after it too; the new state stands and the call returns True.
C22_ListenersContained ==
    [][(UpdateCall /\ last_update'[1] \in DOMAIN nodes)
       => /\ returned' = True
          /\ nodes'[last_update'[1]].state = last_update'[2]
          /\ SelectSeq(invoked', LAMBDA e : e[2] = last_update'[1])
                = OwedCalls(last_update'[1], last_update'[2])]_vars

\* a raising callback was called for A and the one subscribed after it too
C22_Witness ==
    /\ last_update = <<"A", COMPLETED>>
    /\ state_listeners["A"] = <<"_on_state_change", "raises", "records">>
    /\ invoked = <<<<"_on_state_change", "A", COMPLETED>>,
                   <<"_on_state_change", "B", READY>>,
                   <<"raises", "A", COMPLETED>>,
                   <<"records", "A", COMPLETED>>>>
    /\ returned = True
    /\ nodes["A"].state = COMPLETED
    /\ nodes["B"].state = READY

\* ------------------------------------------------------------- run claims
Raised == \E n \in DOMAIN nodes : nodes[n].error # None

\* execute_dag has returned the status map, the failed nodes listed as failed
ReturnedWithFailures ==
    /\ phase = "done"
    /\ DOMAIN results = DOMAIN nodes
    /\ \A n \in DOMAIN nodes :
            nodes[n].error # None =>
                results[n].state = FAILED /\ results[n].error = ErrorText

\* execute_dag is at a point from which it goes on: an executor call is
\* awaited, or the loop is at its head with or without iterations left
RunGoesOn ==
    \/ tasks # {}
    \/ InLoop
    \/ (tasks = {} /\ iteration = max_iterations)

\* every step of execute_dag uses up an iteration, ends an awaited executor
\* call, or returns
RunAdvances ==
    \/ iteration' > iteration /\ iteration' <= max_iterations
    \/ iteration' = iteration /\ tasks' \subseteq tasks /\ tasks' # tasks
    \/ phase' = "done"

\* C23: when the executor raises for a node, the node's error becomes the
\* exception's text and the node goes from EXECUTING to FAILED while
\* execute_dag goes on; from there on the run is never stuck, every step
\* brings it nearer to its return, and what it returns is the status map with
\* the failed node listed as failed.
C23_RaiseCaptured ==
    /\ [][/\ \A n \in DOMAIN nodes :
                (nodes[n].error = None /\ nodes'[n].error # None)
                    => /\ nodes[n].state = EXECUTING
                       /\ nodes'[n].state = FAILED
                       /\ nodes'[n].error = ErrorText
                       /\ phase' = "run"
          /\ (phase = "run" /\ Raised) => RunAdvances]_vars
    /\ []((phase = "run" /\ Raised) => RunGoesOn)
    /\ []((phase = "done" /\ Raised) => ReturnedWithFailures)

\* C24: a COMPLETED node has its result populated and its error unset, a
\* FAILED node has its error populated and its result unset.
C24_ExactlyOnePopulated ==
    \A n \in DOMAIN nodes :
        /\ nodes[n].state = COMPLETED => (nodes[n].result # None /\ nodes[n].error = None)
        /\ nodes[n].state = FAILED => (nodes[n].error # None /\ nodes[n].result = None)

\* the nodes whose executor call is in flight
InFlight == {n \in DOMAIN nodes : nodes[n].state = EXECUTING}

\* execute_dag and GlobalBridgeScheduler take no maximum in-flight count; the
\* largest maximum that can make a difference is one less than the number of nodes
MaxInFlight == Cardinality(NodeIds) - 1

\* C25: at every point of a run the number of nodes in state EXECUTING is at
\* most the maximum in-flight count.
C25_InFlightBounded == Cardinality(InFlight) <= MaxInFlight

\* ------------------------------------------------------------ TaskDAG claims
\* the tasks a dependency reference identifies: those titled exactly so
Identified(dep) == {i \in 1..Len(task_nodes) : task_nodes[i].title = dep}

\* every task the i-th task declares as a dependency is COMPLETED
DeclaredCompleted(ns, i) ==
    \A dep \in ns[i].dependencies :
        \A j \in Identified(dep) : ns[j].state = COMPLETED

\* C26: update_task_state promotes a PENDING task to READY only when every
\* task it declares as a dependency is COMPLETED, and get_ready_tasks reports
\* a PENDING task exactly when every task it declares as a dependency is
\* COMPLETED, whatever the titles of the other tasks contain.
C26_ResolvedExactly ==
    [][/\ \A i \in 1..Len(task_nodes) :
            (/\ task_nodes[i].state = PENDING
             /\ task_nodes'[i].state = READY
             /\ task_nodes[i].id # updated')
                => DeclaredCompleted(task_nodes', i)
       /\ (task_nodes' = task_nodes /\ reported' # reported)
            => \A i \in 1..Len(task_nodes) :
                    task_nodes[i].state = PENDING
                        => (task_nodes[i].id \in reported'
                                <=> DeclaredCompleted(task_nodes, i))]_vars

\* -------------------------------------------------------------- run claims
\* the moves of the state machine: initial -> READY -> EXECUTING -> terminal
Moves ==
    {<<IDLE, READY>>, <<READY, EXECUTING>>,
     <<EXECUTING, COMPLETED>>, <<EXECUTING, FAILED>>}

\* C27: from the start of execute_dag on, a step changes a node's state only
\* along IDLE -> READY -> EXECUTING -> {COMPLETED, FAILED}.
C27_StateMachine ==
    [][phase' \in {"run", "done"} =>
        \A n \in DOMAIN nodes :
            nodes'[n].state # nodes[n].state
                => <<nodes[n].state, nodes'[n].state>> \in Moves]_vars

\* node n is handed to the executor in this step
Dispatched(n) ==
    \/ nodes[n].state # EXECUTING /\ nodes'[n].state = EXECUTING
    \/ dispatch_log'[n] > dispatch_log[n]

C29_DispatchedAtOnce ==
    [][/\ (phase = "run" /\ tasks # {})
            => \A n \in ready_nodes : nodes'[n].state = EXECUTING
       /\ sleeps' = sleeps]_vars

\* the number of nodes on the longest dependency chain that ends in n
RECURSIVE Level(_)
Level(n) ==
    IF Upstream(n) \cap DOMAIN nodes = {} THEN 1
    ELSE LET levels == {Level(u) : u \in Upstream(n) \cap DOMAIN nodes} IN
         1 + CHOOSE l \in levels : \A k \in levels : k <= l

Depth == LET levels == {Level(n) : n \in DOMAIN nodes} IN
         CHOOSE l \in levels : \A k \in levels : k <= l

\* iterations of the scheduling loop a returned run has performed: the loop
\* left by break has begun one more than it has consumed
Iterations == IF iteration < max_iterations THEN iteration + 1 ELSE iteration

\* C30: when the executor has raised for no node, a returned run has
\* performed at most depth + 1 iterations of the scheduling loop.
C30_IterationsBoundedByDepth ==
    (phase = "done" /\ NoRaise) => Iterations <= Depth + 1

\* execute_dag has returned a status map of all the nodes
Returned ==
    /\ phase = "done"
    /\ DOMAIN results = DOMAIN nodes
    /\ \A n \in DOMAIN nodes : results[n].state = nodes[n].state

\* C31: provided every executor call returns (the awaited calls end again
\* and again), a started execute_dag returns a status map; it never begins
\* more than 2 * (number of nodes) iterations of its loop.
C31_Terminates ==
    /\ []((phase \in {"run", "done"})
            => /\ max_iterations = 2 * Cardinality(DOMAIN nodes)
               /\ Iterations <= max_iterations)
    /\ []<>(tasks = {}) => ((phase = "run") ~> Returned)

\* a returned run of the dependency cycle A -> B -> A: all of the 2 * 2
\* iterations were spent sleeping
C31_Witness ==
    /\ Returned
    /\ DOMAIN nodes = {"A", "B"}
    /\ nodes["A"].upstream_nodes = {"B"}
    /\ nodes["B"].upstream_nodes = {"A"}
    /\ iteration = 4
    /\ sleeps = 4

\* the upstream nodes whose result has an entry in the prompt
PromptSources(prompt) == {e[1] : e \in prompt[1]}

\* C32: when a dependent moves to READY, the prompt assembled for it holds an
\* entry for the result of each of its upstream nodes, whatever the results are.
C32_PromptComplete ==
    [][phase = "run" =>
        \A v \in DOMAIN nodes :
            (/\ Upstream(v) # {}
             /\ nodes[v].state # READY
             /\ nodes'[v].state = READY)
                => /\ nodes'[v].prompt # NoPrompt
                   /\ PromptSources(nodes'[v].prompt) = Upstream(v)]_vars

\* the dependents listed for u
Downstream(u) == SeqToSet(nodes[u].downstream_nodes)

\* C33: when u completes and the payload assembly raises for one of its
\* dependents, u is COMPLETED after the transition and every other dependent
\* of u whose upstream nodes are all COMPLETED, and whose own payload can be
\* assembled, is READY.
C33_RaiseContained ==
    [][phase = "run" =>
        \A u \in DOMAIN nodes :
            (/\ nodes[u].state # COMPLETED
             /\ nodes'[u].state = COMPLETED
             /\ \E d \in Downstream(u) \cap DOMAIN nodes :
                    /\ all_deps_completed(nodes', d)
                    /\ generate_prompt_raises(nodes', d))
                => \A d \in Downstream(u) \cap DOMAIN nodes :
                        (/\ all_deps_completed(nodes', d)
                         /\ ~generate_prompt_raises(nodes', d))
                            => nodes'[d].state = READY]_vars

\* C34: every node in state EXECUTING has started_at set, and every node in
\* state COMPLETED, FAILED or BLOCKED has completed_at set.
C34_Stamped ==
    \A n \in DOMAIN nodes :
        /\ nodes[n].state = EXECUTING => nodes[n].started_at # None
        /\ nodes[n].state \in {COMPLETED, FAILED, BLOCKED}
                => nodes[n].completed_at # None

\* C35: a bridge call whose scope is neither "public" nor "shared" returns, when
\* it succeeds, exactly the target's id and state, and when it fails nothing
\* of the target at all; so the answer is the same for targets that differ
\* in prompt, context_data, result or error only.
C35_FailsClosed ==
    [][(BridgeCall /\ last_request'.scope \notin {"public", "shared"})
       => IF last_response'.success
          THEN last_response'.data =
                    [id    |-> last_request'.target_node,
                     state |-> nodes[last_request'.target_node].state]
          ELSE last_response'.data \in {Null, [error |-> "Node not found"]}]_vars

\* a request with the scope "PUBLIC" answered with id and state only, while
\* the target B held a prompt and context_data
C35_Witness ==
    /\ last_response # Null
    /\ last_response.success
    /\ last_request.scope = "PUBLIC"
    /\ last_request.target_node = "B"
    /\ nodes["B"].prompt # NoPrompt
    /\ nodes["B"].context_data = {"key"}
    /\ last_response.data = [id |-> "B", state |-> READY]

\* C37: get_ready_tasks returns every task that is in state READY, a
\* dependent promoted by update_task_state included.
C37_ReadyReported ==
    [][(task_nodes' = task_nodes /\ reported' # reported)
        => \A i \in 1..Len(task_nodes) :
                task_nodes[i].state = READY => task_nodes[i].id \in reported']_vars

\* ------------------------------------------------------- context claims
\* C36: every record get_node_context(n) returns has node_id n.
C36_OwnRecordsOnly ==
    node_view # Null =>
        \A record \in node_view.records : record.node_id = node_view.node_id

\* ------------------------------------------------------------ merger claims
\* C38: IdempotentMerger.merge_results called again on the same merger with
\* the same results and strategy returns merged data equal to that of the
\* call before.
C38_SameMergeSameData ==
    [][(/\ merger_calls' = merger_calls + 1
        /\ merge_out # Null
        /\ merge_out.call = "merge_results"
        /\ merge_out'.call = "merge_results"
        /\ merge_out'.exec_results = merge_out.exec_results
        /\ merge_out'.strategy = merge_out.strategy)
        => merge_out'.merged_data = merge_out.merged_data]_vars

\* C39: a merge one of whose validations returns FAILED returns success=False
\* and merged_data=None, records no merge token and creates no rollback
\* point; the merge that follows it is skipped as a duplicate only for a
\* token that was recorded before the failed merge.
C39_FailedValidationLeavesState ==
    [][(merger_calls' = merger_calls + 1 /\ merge_out'.call = "merge")
        => /\ (\E name \in DOMAIN merge_out'.validations :
                    merge_out'.validations[name] = FAILED)
              => /\ merge_out'.success = FALSE
                 /\ merge_out'.merged_data = Null
                 /\ merge_out'.rollback_point = Null
                 /\ merge_tokens' = merge_tokens
                 /\ rollback_points' = rollback_points
           /\ (/\ merge_out # Null
               /\ merge_out.call = "merge"
               /\ ~merge_out.success
               /\ merge_out'.success
               /\ merge_out'.exec_results # <<>>
               /\ merge_out'.merged_data = Null)
              => generate_merge_token(merge_out'.exec_results) \in DOMAIN merge_tokens]_vars

\* a merge of a result with a forged content_hash failed after a merge that
\* had recorded a token and created a rollback point, and left both as they were
C39_Witness ==
    /\ merge_out # Null
    /\ merge_out.call = "merge"
    /\ merge_out.exec_results = <<ResultForged>>
    /\ merge_out.validations["content_hash"] = FAILED
    /\ ~merge_out.success
    /\ merge_out.merged_data = Null
    /\ merger_calls = 2
    /\ Len(rollback_points) = 1
    /\ DOMAIN merge_tokens = {generate_merge_token(<<ResultAnalyst, ResultDeveloper>>)}

\* C40: rollback_to(id) returns the state captured when id was created if id
\* is among the max_rollback_points most recently created points, whatever
\* happened to the object since, and None otherwise.
C40_RollbackReturnsCaptured ==
    [][rolled' # rolled
        => LET recent == {j \in 1..Len(created) : j > Len(created) - max_points}
               matching == {j \in recent : created[j].id = rolled'.point_id}
           IN IF matching = {} THEN rolled'.state = None
              ELSE \A j \in matching : rolled'.state = created[j].state]_vars
====
